---- MODULE Spec2Model ----
(***************************************************************************)
(* Model of bookstore.py: an interactive sales ledger over one sqlite3     *)
(* connection.  Text typed at a prompt is a sequence of one-character      *)
(* strings, so that len(), strip(), split() and int() are computed the way *)
(* Python computes them.  The database is a committed image `db` plus the  *)
(* connection's open transaction `tx` (a working copy, or NoTx).           *)
(***************************************************************************)
EXTENDS Integers, Sequences, FiniteSets, TLC

VARIABLES pc, db, tx, loc, lastOut, closing, exitPath, pre, prev

vars == <<pc, db, tx, loc, lastOut, closing, exitPath, pre, prev>>

(***************************************************************************)
(* Bounds of the model.                                                    *)
(***************************************************************************)
\* at most this many sale rows are in the table at once
MaxSales == 2
\* the autoincrement counter of sale.sid never passes this value
MaxSid == 3

(***************************************************************************)
(* Text helpers: Python's str.strip, str.count, str.split and int().       *)
(***************************************************************************)
Digits == <<"0", "1", "2", "3", "4", "5", "6", "7", "8", "9">>

IsDigit(c) == \E i \in 1..10 : Digits[i] = c

DigitVal(c) == (CHOOSE i \in 1..10 : Digits[i] = c) - 1

IsSpace(c) == c = " "

RECURSIVE LStrip(_)
LStrip(s) == IF s # <<>> /\ IsSpace(Head(s)) THEN LStrip(Tail(s)) ELSE s

RECURSIVE RStrip(_)
RStrip(s) ==
    IF s # <<>> /\ IsSpace(s[Len(s)]) THEN RStrip(SubSeq(s, 1, Len(s) - 1)) ELSE s

Strip(s) == RStrip(LStrip(s))

Lower(c) == IF c = "Y" THEN "y" ELSE IF c = "N" THEN "n" ELSE c

LowerStr(s) == [i \in 1..Len(s) |-> Lower(s[i])]

Count(s, c) == Cardinality({i \in 1..Len(s) : s[i] = c})

RECURSIVE DigitsValue(_)
DigitsValue(s) ==
    IF s = <<>> THEN 0
    ELSE 10 * DigitsValue(SubSeq(s, 1, Len(s) - 1)) + DigitVal(s[Len(s)])

\* int(s): surrounding blanks dropped, an optional sign, then one or more digits;
\* anything else raises ValueError (ok = FALSE).  The prompts' alphabets hold no
\* underscore and no non-ASCII digit, the other forms int() accepts.
ParseInt(s) ==
    LET t    == Strip(s)
        sgn  == t # <<>> /\ Head(t) \in {"+", "-"}
        body == IF sgn THEN Tail(t) ELSE t
    IN  IF body = <<>> \/ \E i \in 1..Len(body) : ~IsDigit(body[i])
        THEN [ok |-> FALSE, val |-> 0]
        ELSE [ok |-> TRUE,
              val |-> IF sgn /\ Head(t) = "-" THEN 0 - DigitsValue(body)
                      ELSE DigitsValue(body)]

\* s.split(c): the pieces of s between the occurrences of c
RECURSIVE Split(_, _)
Split(s, c) ==
    IF \A i \in 1..Len(s) : s[i] # c THEN <<s>>
    ELSE LET k == CHOOSE i \in 1..Len(s) :
                      s[i] = c /\ \A j \in 1..(i - 1) : s[j] # c
         IN  <<SubSeq(s, 1, k - 1)>> \o Split(SubSeq(s, k + 1, Len(s)), c)

\* the validator without its month and day range check
validate_date_NoRange(date_str) ==
    IF Len(date_str) # 10 \/ Count(date_str, "-") # 2 THEN FALSE
    ELSE LET parts == Split(date_str, "-")
         IN  \A i \in 1..3 : ParseInt(parts[i]).ok

validate_date(date_str) ==
    IF Len(date_str) # 10 \/ Count(date_str, "-") # 2 THEN FALSE
    ELSE LET parts == Split(date_str, "-")
             year  == ParseInt(parts[1])
             month == ParseInt(parts[2])
             day   == ParseInt(parts[3])
         IN  IF ~year.ok \/ ~month.ok \/ ~day.ok THEN FALSE
             ELSE ~(month.val < 1 \/ month.val > 12 \/ day.val < 1 \/ day.val > 31)

(***************************************************************************)
(* What is typed at the prompts.                                           *)
(***************************************************************************)
DateInputs ==
    { <<"2", "0", "2", "4", "-", "0", "1", "-", "1", "5">>,
      <<"2", "0", "2", "4", "-", "1", "3", "-", "0", "1">>,
      <<"2", "0", "2", "4", "/", "0", "1", "/", "0", "1">>,
      <<"a", "b", "c">> }

MemberInputs == { <<"M", "1">>, <<"M", "9">> }

BookInputs == { <<"B", "1">>, <<"7">>, <<"8">>, <<"Z">>, <<>> }

QtyInputs == { <<"3">>, <<"1", "0">>, <<"1", "1">>, <<"0">>, <<"-", "1">>, <<"x">> }

DiscountInputs == { <<"5", "0">>, <<"-", "5">>, <<"x">> }

NewDiscountInputs == { <<"2", "0">>, <<"-", "1">>, <<"x">> }

ChoiceInputs == { <<>>, <<"1">>, <<"2">>, <<"0">>, <<"9">>, <<"x">> }

ConfirmInputs == { <<"y">>, <<"Y">>, <<"n">>, <<"y", "e", "s">>, <<>> }

MenuInputs ==
    { <<>>, <<" ">>, <<"1">>, <<"2">>, <<"3">>, <<"4">>, <<"5">>, <<" ", "5">>,
      <<"9">> }

(***************************************************************************)
(* The store: member(mid, mname), book(bid, btitle, bprice, bstock),       *)
(* sale(sid, sdate, mid, bid, sqty, sdiscount, stotal).                    *)
(***************************************************************************)
NoTx == [open |-> FALSE]

InitDb ==
    [ member |-> (<<"M", "1">> :> "Alice"),
      book   |-> (<<"B", "1">> :> [bprice |-> 100, bstock |-> 10]) @@
                 (<<"7">>      :> [bprice |-> 100, bstock |-> 10]) @@
                 (<<"8">>      :> [bprice |-> 30, bstock |-> 3]),
      sale   |-> <<>>,
      seq    |-> 0 ]

\* what a statement on the connection sees: the open transaction, else the
\* committed image
View == IF tx = NoTx THEN db ELSE tx

LocInit ==
    [ menuIn |-> <<>>, op |-> "none", asked |-> {}, fault |-> FALSE, eof |-> FALSE,
      sdate |-> <<>>, mid |-> <<>>, bid |-> <<>>, qtyIn |-> <<>>, discIn |-> <<>>,
      choiceIn |-> <<>>, confirmIn |-> <<>>,
      book_info |-> [found |-> FALSE, bprice |-> 0, bstock |-> 0],
      sqty |-> 0, sdiscount |-> 0, stotal |-> 0,
      sale_info |-> [found |-> FALSE, bid |-> <<>>, sqty |-> 0, bprice |-> 0],
      sales |-> <<>>, sid |-> 0, report |-> <<>>, dbcalls |-> 0,
      began |-> FALSE ]

NoPrev == [out |-> "none", pre |-> InitDb, sid |-> 0]

Init ==
    /\ pc = "start"
    /\ db = InitDb
    /\ tx = NoTx
    /\ loc = LocInit
    /\ lastOut = "none"
    /\ closing = 0
    /\ exitPath = "none"
    /\ pre = InitDb
    /\ prev = NoPrev

(***************************************************************************)
(* The SQL statements, as functions of the image v they run on.            *)
(***************************************************************************)
Min(S) == CHOOSE m \in S : \A x \in S : m <= x

RECURSIVE SortAsc(_)
SortAsc(S) == IF S = {} THEN <<>> ELSE <<Min(S)>> \o SortAsc(S \ {Min(S)})

\* a lookup that answers for any id
get_member_name_Any(v, mid) == IF mid \in DOMAIN v.member THEN v.member[mid] ELSE "?"

\* SELECT mname FROM member WHERE mid = ?  -- the name, or "" for None
get_member_name(v, mid) == IF mid \in DOMAIN v.member THEN v.member[mid] ELSE ""

\* cursor.execute(sql, (bid)): a str passed as the parameter sequence binds one
\* value per character, and the statement has one placeholder
BindsOneParameter(bid) == Len(bid) = 1

\* a lookup that finds a book under any id
get_book_info_Any(v, bid) ==
    IF bid \in DOMAIN v.book
    THEN [found |-> TRUE, bprice |-> v.book[bid].bprice, bstock |-> v.book[bid].bstock]
    ELSE [found |-> TRUE, bprice |-> 100, bstock |-> 10]

\* SELECT btitle, bprice, bstock FROM book WHERE bid = ?
get_book_info(v, bid) ==
    IF bid \in DOMAIN v.book
    THEN [found |-> TRUE, bprice |-> v.book[bid].bprice, bstock |-> v.book[bid].bstock]
    ELSE [found |-> FALSE, bprice |-> 0, bstock |-> 0]

\* INSERT INTO sale (sdate, mid, bid, sqty, sdiscount, stotal): sid autoincrements
InsertSale(v, sdate, mid, bid, sqty, sdiscount, stotal) ==
    [v EXCEPT !.sale = @ @@ ((v.seq + 1) :>
                  [sdate |-> sdate, mid |-> mid, bid |-> bid, sqty |-> sqty,
                   sdiscount |-> sdiscount, stotal |-> stotal]),
              !.seq = v.seq + 1]

\* the decrement by one copy whatever the quantity sold
DecStock_One(v, sqty, bid) ==
    [v EXCEPT !.book = [b \in DOMAIN @ |->
        IF b = bid THEN [@[b] EXCEPT !.bstock = @ - 1] ELSE @[b]]]

\* UPDATE book SET bstock = bstock - ? WHERE bid = ?
DecStock(v, sqty, bid) ==
    [v EXCEPT !.book = [b \in DOMAIN @ |->
        IF b = bid THEN [@[b] EXCEPT !.bstock = @ - sqty] ELSE @[b]]]

\* the restore with the sign of the create statement
IncStock_Minus(v, sqty, bid) ==
    [v EXCEPT !.book = [b \in DOMAIN @ |->
        IF b = bid THEN [@[b] EXCEPT !.bstock = @ - sqty] ELSE @[b]]]

\* UPDATE book SET bstock = bstock + ? WHERE bid = ?
IncStock(v, sqty, bid) ==
    [v EXCEPT !.book = [b \in DOMAIN @ |->
        IF b = bid THEN [@[b] EXCEPT !.bstock = @ + sqty] ELSE @[b]]]

\* DELETE FROM sale WHERE sid = ?
DeleteSale(v, sid) ==
    [v EXCEPT !.sale = [s \in (DOMAIN @) \ {sid} |-> @[s]]]

\* the UPDATE without its WHERE clause
UpdateSale_All(v, new_discount, new_total, sid) ==
    [v EXCEPT !.sale = [s \in DOMAIN @ |->
        [@[s] EXCEPT !.sdiscount = new_discount, !.stotal = new_total]]]

\* UPDATE sale SET sdiscount = ?, stotal = ? WHERE sid = ?
UpdateSale(v, new_discount, new_total, sid) ==
    [v EXCEPT !.sale = [s \in DOMAIN @ |->
        IF s = sid THEN [@[s] EXCEPT !.sdiscount = new_discount, !.stotal = new_total]
        ELSE @[s]]]

\* SELECT s.sqty, b.bprice FROM sale s JOIN book b ON s.bid = b.bid WHERE s.sid = ?
SelectSaleWithPrice(v, sid) ==
    IF sid \in DOMAIN v.sale /\ v.sale[sid].bid \in DOMAIN v.book
    THEN [found |-> TRUE, bid |-> v.sale[sid].bid, sqty |-> v.sale[sid].sqty,
          bprice |-> v.book[v.sale[sid].bid].bprice]
    ELSE [found |-> FALSE, bid |-> <<>>, sqty |-> 0, bprice |-> 0]

\* SELECT bid, sqty FROM sale WHERE sid = ?
SelectSale(v, sid) ==
    IF sid \in DOMAIN v.sale
    THEN [found |-> TRUE, bid |-> v.sale[sid].bid, sqty |-> v.sale[sid].sqty,
          bprice |-> 0]
    ELSE [found |-> FALSE, bid |-> <<>>, sqty |-> 0, bprice |-> 0]

\* SELECT s.sid, s.sdate, m.mname FROM sale s JOIN member m ... ORDER BY s.sid
list_sales(v) ==
    LET ids == SortAsc({s \in DOMAIN v.sale : v.sale[s].mid \in DOMAIN v.member})
    IN  [i \in 1..Len(ids) |->
            [sid |-> ids[i], sdate |-> v.sale[ids[i]].sdate,
             mname |-> v.member[v.sale[ids[i]].mid]]]

\* the report query without its ORDER BY, the rows coming newest first
SaleReportRows_Unordered(v) ==
    LET ids == SortAsc({s \in DOMAIN v.sale :
                   v.sale[s].mid \in DOMAIN v.member /\ v.sale[s].bid \in DOMAIN v.book})
    IN  [i \in 1..Len(ids) |-> ids[Len(ids) + 1 - i]]

\* SELECT ... FROM sale s JOIN member m JOIN book b ORDER BY s.sid
SaleReportRows(v) ==
    LET ids == SortAsc({s \in DOMAIN v.sale :
                   v.sale[s].mid \in DOMAIN v.member /\ v.sale[s].bid \in DOMAIN v.book})
    IN  [i \in 1..Len(ids) |-> ids[i]]

\* conn.commit(): the open transaction becomes the committed image
AfterCommit(d, t) == IF t = NoTx THEN d ELSE t

\* a rollback that keeps what the transaction wrote
AfterRollback_Keep(d, t) == IF t = NoTx THEN d ELSE t

\* conn.rollback(): the open transaction is dropped
AfterRollback(d, t) == d

\* the stock check left out
StockShort_Never(book_info, sqty) == FALSE

\* book_info['bstock'] < sqty
StockShort(book_info, sqty) == book_info.bstock < sqty

\* (bprice * sqty) - discount
Total(bprice, sqty, discount) == (bprice * sqty) - discount

\* the index not brought back to the list's base
PickSid_OffByOne(sales, choice) ==
    IF choice < Len(sales) THEN sales[choice + 1].sid ELSE sales[1].sid

\* sales[choice-1]['sid'], the list being 1-based here
PickSid(sales, choice) == sales[choice].sid

(***************************************************************************)
(* main(): connect, the menu loop, and the ways out of it.                 *)
(***************************************************************************)
\* a handler returns to the loop, which shows the menu again
Return(msg) ==
    /\ pc' = "menu"
    /\ lastOut' = msg
    /\ UNCHANGED <<closing, exitPath, pre, prev>>

\* the loop is left: `with conn` commits (no exception) or rolls back (exception),
\* an except clause prints what it caught, `finally` prints the closing message
Leave(path, raised) ==
    /\ pc' = "done"
    /\ db' = IF raised THEN AfterRollback(db, tx) ELSE AfterCommit(db, tx)
    /\ tx' = NoTx
    /\ lastOut' = "closing"
    /\ closing' = closing + 1
    /\ exitPath' = path
    /\ UNCHANGED <<pre, prev>>

Connect ==
    /\ pc = "start"
    /\ \E ok \in BOOLEAN :
         IF ok
         THEN /\ Return("menu")
              /\ UNCHANGED <<db, tx, loc>>
         ELSE /\ Leave("connect_error", TRUE)
              /\ loc' = [loc EXCEPT !.fault = TRUE]

\* the chain with the update and delete branches exchanged
Dispatch_Swapped(choice) ==
    CASE choice = <<>> -> "done"
      [] choice = <<"1">> -> "add_date"
      [] choice = <<"2">> -> "report"
      [] choice = <<"3">> -> "del_list"
      [] choice = <<"4">> -> "upd_list"
      [] choice = <<"5">> -> "done"
      [] OTHER -> "menu"

\* the if/elif chain of the loop body: where each stripped choice leads
Dispatch(choice) ==
    CASE choice = <<>> -> "done"
      [] choice = <<"1">> -> "add_date"
      [] choice = <<"2">> -> "report"
      [] choice = <<"3">> -> "upd_list"
      [] choice = <<"4">> -> "del_list"
      [] choice = <<"5">> -> "done"
      [] OTHER -> "menu"

Menu ==
    /\ pc = "menu"
    /\ \E inp \in MenuInputs :
         LET choice == Strip(inp)
             nloc   == [LocInit EXCEPT !.menuIn = inp, !.op = Dispatch(choice)]
         IN  IF Dispatch(choice) = "done"
             THEN /\ Leave(IF choice = <<>> THEN "empty" ELSE "quit", FALSE)
                  /\ loc' = nloc
             ELSE /\ choice = <<"1">> =>
                        Cardinality(DOMAIN db.sale) < MaxSales /\ db.seq < MaxSid
                  /\ pc' = Dispatch(choice)
                  /\ lastOut' = IF Dispatch(choice) = "menu" THEN "err_option" ELSE "none"
                  /\ loc' = nloc
                  /\ pre' = db
                  /\ prev' = [out |-> lastOut, pre |-> pre, sid |-> loc.sid]
                  /\ UNCHANGED <<db, tx, closing, exitPath>>

\* input() raises EOFError at a prompt whose handler does not catch it
PromptPcs == {"menu", "upd_choice", "upd_discount", "del_choice", "del_confirm"}

EscapeEof ==
    /\ pc \in PromptPcs
    /\ Leave("exception", TRUE)
    /\ loc' = IF pc = "menu" THEN [LocInit EXCEPT !.eof = TRUE]
              ELSE [loc EXCEPT !.eof = TRUE]

(***************************************************************************)
(* add_sale                                                                *)
(***************************************************************************)
\* add_sale's except clauses: roll back, print, return
AddCaught(msg, nloc) ==
    /\ db' = AfterRollback(db, tx)
    /\ tx' = NoTx
    /\ loc' = nloc
    /\ Return(msg)

\* a return from inside the try block: nothing is touched
AddAbort(msg, nloc) ==
    /\ loc' = nloc
    /\ Return(msg)
    /\ UNCHANGED <<db, tx>>

AddNext(next, nloc) ==
    /\ pc' = next
    /\ loc' = nloc
    /\ UNCHANGED <<db, tx, lastOut, closing, exitPath, pre, prev>>

AddPcs == {"add_date", "add_member", "add_book", "add_qty", "add_discount"}

\* input() raises EOFError inside add_sale: `except Exception`
AddEof ==
    /\ pc \in AddPcs
    /\ AddCaught("error", [loc EXCEPT !.eof = TRUE])

AddDate ==
    /\ pc = "add_date"
    /\ \E sdate \in DateInputs :
         LET nloc == [loc EXCEPT !.sdate = sdate, !.asked = @ \cup {"date"}]
         IN  IF ~validate_date(sdate)
             THEN AddAbort("err_date", nloc)
             ELSE AddNext("add_member", nloc)

AddMember ==
    /\ pc = "add_member"
    /\ \E mid \in MemberInputs, ok \in BOOLEAN :
         LET nloc == [loc EXCEPT !.mid = mid, !.asked = @ \cup {"member"},
                                 !.dbcalls = @ + 1]
         IN  IF ~ok
             THEN AddCaught("db_error", [nloc EXCEPT !.fault = TRUE])
             ELSE IF get_member_name(View, mid) = ""
             THEN AddAbort("err_member", nloc)
             ELSE AddNext("add_book", nloc)

AddBook ==
    /\ pc = "add_book"
    /\ \E bid \in BookInputs, ok \in BOOLEAN :
         LET nloc == [loc EXCEPT !.bid = bid, !.asked = @ \cup {"book"}]
             info == get_book_info(View, bid)
         IN  IF ~BindsOneParameter(bid)
             THEN /\ ok
                  /\ AddCaught("db_error", nloc)
             ELSE IF ~ok
             THEN AddCaught("db_error", [nloc EXCEPT !.fault = TRUE, !.dbcalls = @ + 1])
             ELSE IF ~info.found
             THEN AddAbort("err_book", [nloc EXCEPT !.dbcalls = @ + 1])
             ELSE AddNext("add_qty", [nloc EXCEPT !.dbcalls = @ + 1,
                                                  !.book_info = info])

AddQty ==
    /\ pc = "add_qty"
    /\ \E inp \in QtyInputs :
         LET q    == ParseInt(inp)
             nloc == [loc EXCEPT !.qtyIn = inp, !.asked = @ \cup {"qty"},
                                 !.sqty = q.val]
         IN  IF ~q.ok
             THEN AddAbort("err_qty_int", nloc)
             ELSE IF q.val <= 0
             THEN AddAbort("err_qty_positive", nloc)
             ELSE IF StockShort(loc.book_info, q.val)
             THEN AddAbort("err_stock", nloc)
             ELSE AddNext("add_discount", nloc)

AddDiscount ==
    /\ pc = "add_discount"
    /\ \E inp \in DiscountInputs :
         LET d    == ParseInt(inp)
             nloc == [loc EXCEPT !.discIn = inp, !.asked = @ \cup {"discount"},
                                 !.sdiscount = d.val]
         IN  IF ~d.ok
             THEN AddAbort("err_discount_int", nloc)
             ELSE IF d.val < 0
             THEN AddAbort("err_discount_negative", nloc)
             ELSE AddNext("add_begin",
                          [nloc EXCEPT !.stotal =
                               Total(loc.book_info.bprice, loc.sqty, d.val)])

\* conn.execute("BEGIN TRANSACTION")
AddBegin ==
    /\ pc = "add_begin"
    /\ \E ok \in BOOLEAN :
         LET nloc == [loc EXCEPT !.dbcalls = @ + 1, !.began = TRUE]
         IN  IF ~ok \/ tx # NoTx
             THEN AddCaught("db_error", [nloc EXCEPT !.fault = TRUE])
             ELSE /\ tx' = db
                  /\ pc' = "add_insert"
                  /\ loc' = nloc
                  /\ UNCHANGED <<db, lastOut, closing, exitPath, pre, prev>>

AddInsert ==
    /\ pc = "add_insert"
    /\ \E ok \in BOOLEAN :
         LET nloc == [loc EXCEPT !.dbcalls = @ + 1]
         IN  IF ~ok
             THEN AddCaught("db_error", [nloc EXCEPT !.fault = TRUE])
             ELSE /\ tx' = InsertSale(tx, loc.sdate, loc.mid, loc.bid, loc.sqty,
                                      loc.sdiscount, loc.stotal)
                  /\ pc' = "add_stock"
                  /\ loc' = [nloc EXCEPT !.sid = tx.seq + 1]
                  /\ UNCHANGED <<db, lastOut, closing, exitPath, pre, prev>>

AddStock ==
    /\ pc = "add_stock"
    /\ \E ok \in BOOLEAN :
         LET nloc == [loc EXCEPT !.dbcalls = @ + 1]
         IN  IF ~ok
             THEN AddCaught("db_error", [nloc EXCEPT !.fault = TRUE])
             ELSE /\ tx' = DecStock(tx, loc.sqty, loc.bid)
                  /\ pc' = "add_commit"
                  /\ loc' = nloc
                  /\ UNCHANGED <<db, lastOut, closing, exitPath, pre, prev>>

AddCommit ==
    /\ pc = "add_commit"
    /\ \E ok \in BOOLEAN :
         LET nloc == [loc EXCEPT !.dbcalls = @ + 1]
         IN  IF ~ok
             THEN AddCaught("db_error", [nloc EXCEPT !.fault = TRUE])
             ELSE /\ db' = AfterCommit(db, tx)
                  /\ tx' = NoTx
                  /\ loc' = nloc
                  /\ Return("sale_added")

(***************************************************************************)
(* print_sale_report                                                       *)
(***************************************************************************)
Report ==
    /\ pc = "report"
    /\ \E ok \in BOOLEAN :
         LET rows == SaleReportRows(View)
             nloc == [loc EXCEPT !.dbcalls = @ + 1]
         IN  /\ IF ~ok
                THEN /\ loc' = [nloc EXCEPT !.fault = TRUE]
                     /\ Return("db_error")
                ELSE IF rows = <<>>
                THEN /\ loc' = nloc
                     /\ Return("no_records")
                ELSE /\ loc' = [nloc EXCEPT !.report = rows]
                     /\ Return("report")
             /\ UNCHANGED <<db, tx>>

(***************************************************************************)
(* update_sale and delete_sale: the listing and the selection              *)
(***************************************************************************)
\* the except clause without conn.rollback()
Caught_NoRollback(msg, nloc) ==
    /\ loc' = nloc
    /\ Return(msg)
    /\ UNCHANGED <<db, tx>>

\* no except clause: the error leaves the handler and reaches main()
Caught_Escapes(msg, nloc) ==
    /\ Leave("exception", TRUE)
    /\ loc' = nloc

\* `except sqlite3.Error` of update_sale and delete_sale: roll back, print
Caught(msg, nloc) ==
    /\ db' = AfterRollback(db, tx)
    /\ tx' = NoTx
    /\ loc' = nloc
    /\ Return(msg)

Abort(msg, nloc) ==
    /\ loc' = nloc
    /\ Return(msg)
    /\ UNCHANGED <<db, tx>>

Goto(next, nloc) ==
    /\ pc' = next
    /\ loc' = nloc
    /\ UNCHANGED <<db, tx, lastOut, closing, exitPath, pre, prev>>

\* sales = list_sales(conn); `if not sales`: message and return; else the list
\* is printed.  A read failure is printed inside list_sales, which returns [].
Listing(next, emptyMsg) ==
    \E ok \in BOOLEAN :
       LET sales == IF ok THEN list_sales(View) ELSE <<>>
           nloc  == [loc EXCEPT !.dbcalls = @ + 1, !.sales = sales,
                                !.fault = ~ok]
       IN  IF sales = <<>>
           THEN Abort(emptyMsg, nloc)
           ELSE /\ pc' = next
                /\ loc' = nloc
                /\ lastOut' = "list"
                /\ UNCHANGED <<db, tx, closing, exitPath, pre, prev>>

\* choice = input(...); `if not choice: return`; int(choice); the range check;
\* sid = sales[choice-1]['sid']
Selection(next) ==
    \E inp \in ChoiceInputs :
       LET c    == ParseInt(inp)
           nloc == [loc EXCEPT !.choiceIn = inp, !.asked = @ \cup {"choice"}]
       IN  IF inp = <<>>
           THEN Abort(lastOut, nloc)
           ELSE IF ~c.ok
           THEN Abort("err_number", nloc)
           ELSE IF c.val < 1 \/ c.val > Len(loc.sales)
           THEN Abort("err_number", nloc)
           ELSE Goto(next, [nloc EXCEPT !.sid = PickSid(loc.sales, c.val)])

Begin(next) ==
    \E ok \in BOOLEAN :
       LET nloc == [loc EXCEPT !.dbcalls = @ + 1, !.began = TRUE]
       IN  IF ~ok \/ tx # NoTx
           THEN Caught("db_error", [nloc EXCEPT !.fault = TRUE])
           ELSE /\ tx' = db
                /\ pc' = next
                /\ loc' = nloc
                /\ UNCHANGED <<db, lastOut, closing, exitPath, pre, prev>>

\* a connection in autocommit mode: each statement is committed as it runs
Statement_Autocommit(next, nxt, nloc) ==
    \E ok \in BOOLEAN :
       IF ~ok
       THEN Caught("db_error", [loc EXCEPT !.dbcalls = @ + 1, !.fault = TRUE])
       ELSE /\ tx' = nxt
            /\ db' = nxt
            /\ pc' = next
            /\ loc' = [nloc EXCEPT !.dbcalls = @ + 1]
            /\ UNCHANGED <<lastOut, closing, exitPath, pre, prev>>

\* one statement inside the transaction: it fails (caught, rolled back) or
\* turns the transaction's image into nxt
Statement(next, nxt, nloc) ==
    \E ok \in BOOLEAN :
       IF ~ok
       THEN Caught("db_error", [loc EXCEPT !.dbcalls = @ + 1, !.fault = TRUE])
       ELSE /\ tx' = nxt
            /\ pc' = next
            /\ loc' = [nloc EXCEPT !.dbcalls = @ + 1]
            /\ UNCHANGED <<db, lastOut, closing, exitPath, pre, prev>>

Commit(msg) ==
    \E ok \in BOOLEAN :
       LET nloc == [loc EXCEPT !.dbcalls = @ + 1]
       IN  IF ~ok
           THEN Caught("db_error", [nloc EXCEPT !.fault = TRUE])
           ELSE /\ db' = AfterCommit(db, tx)
                /\ tx' = NoTx
                /\ loc' = nloc
                /\ Return(msg)

(***************************************************************************)
(* update_sale                                                             *)
(***************************************************************************)
UpdList == pc = "upd_list" /\ Listing("upd_choice", "no_update_records")

UpdChoice == pc = "upd_choice" /\ Selection("upd_discount")

UpdDiscount ==
    /\ pc = "upd_discount"
    /\ \E inp \in NewDiscountInputs :
         LET d    == ParseInt(inp)
             nloc == [loc EXCEPT !.discIn = inp, !.asked = @ \cup {"discount"},
                                 !.sdiscount = d.val]
         IN  IF ~d.ok
             THEN Abort("err_discount_int", nloc)
             ELSE IF d.val < 0
             THEN Abort("err_discount_negative", nloc)
             ELSE Goto("upd_begin", nloc)

UpdBegin == pc = "upd_begin" /\ Begin("upd_select")

UpdSelect ==
    /\ pc = "upd_select"
    /\ \E ok \in BOOLEAN :
         LET info == SelectSaleWithPrice(tx, loc.sid)
             nloc == [loc EXCEPT !.dbcalls = @ + 1]
         IN  IF ~ok
             THEN Caught("db_error", [nloc EXCEPT !.fault = TRUE])
             ELSE IF ~info.found
             THEN Caught("err_not_found", nloc)
             ELSE Goto("upd_write",
                       [nloc EXCEPT !.sale_info = info,
                                    !.stotal = Total(info.bprice, info.sqty,
                                                     loc.sdiscount)])

UpdWrite ==
    /\ pc = "upd_write"
    /\ Statement("upd_commit", UpdateSale(tx, loc.sdiscount, loc.stotal, loc.sid), loc)

UpdCommit == pc = "upd_commit" /\ Commit("sale_updated")

(***************************************************************************)
(* delete_sale                                                             *)
(***************************************************************************)
DelList == pc = "del_list" /\ Listing("del_choice", "no_delete_records")

DelChoice == pc = "del_choice" /\ Selection("del_confirm")

\* a confirmation that only a typed n refuses
Confirmed_UnlessNo(confirm) == LowerStr(confirm) # <<"n">>

\* confirm.lower() != 'y'
Confirmed(confirm) == LowerStr(confirm) = <<"y">>

DelConfirm ==
    /\ pc = "del_confirm"
    /\ \E inp \in ConfirmInputs :
         LET nloc == [loc EXCEPT !.confirmIn = inp, !.asked = @ \cup {"confirm"}]
         IN  IF ~Confirmed(inp)
             THEN Abort("delete_cancelled", nloc)
             ELSE Goto("del_begin", nloc)

DelBegin == pc = "del_begin" /\ Begin("del_select")

\* the restore and the delete run whether or not the row was found
AfterSelect_Always(info) == "del_restore"

\* `if sale_info:` guards the restore and the delete; the commit follows either way
AfterSelect(info) == IF info.found THEN "del_restore" ELSE "del_commit"

DelSelect ==
    /\ pc = "del_select"
    /\ \E ok \in BOOLEAN :
         LET info == SelectSale(tx, loc.sid)
             nloc == [loc EXCEPT !.dbcalls = @ + 1, !.sale_info = info]
         IN  IF ~ok
             THEN Caught("db_error", [loc EXCEPT !.dbcalls = @ + 1, !.fault = TRUE])
             ELSE Goto(AfterSelect(info), nloc)

DelRestore ==
    /\ pc = "del_restore"
    /\ Statement("del_remove", IncStock(tx, loc.sale_info.sqty, loc.sale_info.bid), loc)

DelRemove ==
    /\ pc = "del_remove"
    /\ Statement("del_commit", DeleteSale(tx, loc.sid), loc)

DelCommit == pc = "del_commit" /\ Commit("sale_deleted")

(***************************************************************************)
(* The program                                                             *)
(***************************************************************************)
Next ==
    \/ Connect
    \/ Menu
    \/ EscapeEof
    \/ AddEof
    \/ AddDate
    \/ AddMember
    \/ AddBook
    \/ AddQty
    \/ AddDiscount
    \/ AddBegin
    \/ AddInsert
    \/ AddStock
    \/ AddCommit
    \/ Report
    \/ UpdList
    \/ UpdChoice
    \/ UpdDiscount
    \/ UpdBegin
    \/ UpdSelect
    \/ UpdWrite
    \/ UpdCommit
    \/ DelList
    \/ DelChoice
    \/ DelConfirm
    \/ DelBegin
    \/ DelSelect
    \/ DelRestore
    \/ DelRemove
    \/ DelCommit

Spec == Init /\ [][Next]_vars

(***************************************************************************)
(* The same store shared with a second process running the same program:   *)
(* its delete_sale commits while this connection holds no transaction.     *)
(* Only the commits that remove the sale this process has selected, while  *)
(* it waits at the last prompt of update or delete, are modelled: they are *)
(* the ones that make a listed sale vanish between the listing and this    *)
(* process's own transaction, and the program reads nothing in between; a  *)
(* commit at the menu leaves a state this process's own delete also        *)
(* reaches.                                                                *)
(***************************************************************************)
RacePcs == {"upd_discount", "del_confirm"}

OtherProcessDelete ==
    /\ pc \in RacePcs
    /\ tx = NoTx
    /\ loc.sid \in DOMAIN db.sale
    /\ db' = DeleteSale(IncStock(db, db.sale[loc.sid].sqty, db.sale[loc.sid].bid),
                        loc.sid)
    /\ UNCHANGED <<pc, tx, loc, lastOut, closing, exitPath, pre, prev>>

NextShared == Next \/ OtherProcessDelete

SpecShared == Init /\ [][NextShared]_vars

(***************************************************************************)
(* Properties                                                              *)
(***************************************************************************)
B1 == <<"B", "1">>

\* a handler has returned to the menu
Returned(op) == pc = "menu" /\ loc.op = op

\* one of the answers given to add_sale's prompts is invalid by the rules of the
\* ledger: malformed date, unknown member or book, quantity not an integer, not
\* positive or above the stock, discount not an integer or negative
AddEnteredInvalid ==
    \/ "date" \in loc.asked /\ ~validate_date(loc.sdate)
    \/ "member" \in loc.asked /\ loc.mid \notin DOMAIN pre.member
    \/ "book" \in loc.asked /\ loc.bid \notin DOMAIN pre.book
    \/ /\ "qty" \in loc.asked
       /\ \/ ~ParseInt(loc.qtyIn).ok
          \/ ParseInt(loc.qtyIn).val <= 0
          \/ ParseInt(loc.qtyIn).val > pre.book[loc.bid].bstock
    \/ /\ "discount" \in loc.asked
       /\ \/ ~ParseInt(loc.discIn).ok
          \/ ParseInt(loc.discIn).val < 0

\* what a committed create leaves: the book's stock lower by the quantity, one
\* new row with the entered values and total = price x quantity - discount
CreateCommitted ==
    LET q   == ParseInt(loc.qtyIn).val
        d   == ParseInt(loc.discIn).val
        new == (DOMAIN db.sale) \ (DOMAIN pre.sale)
    IN  /\ db.book[loc.bid].bstock = pre.book[loc.bid].bstock - q
        /\ \A b \in (DOMAIN pre.book) \ {loc.bid} : db.book[b] = pre.book[b]
        /\ Cardinality(new) = 1
        /\ \A s \in DOMAIN pre.sale : s \in DOMAIN db.sale /\ db.sale[s] = pre.sale[s]
        /\ \A s \in new :
              db.sale[s] = [sdate |-> loc.sdate, mid |-> loc.mid, bid |-> loc.bid,
                            sqty |-> q, sdiscount |-> d,
                            stotal |-> pre.book[loc.bid].bprice * q - d]

\* C1: a create-sale whose answers are all valid, with no storage failure, ends
\* committed: the stock is lower by exactly the quantity, exactly one new row
\* carries the entered date, member, book, quantity and discount, and its total
\* is price x quantity - discount.
C1_CreatePostcondition ==
    (Returned("add_date") /\ ~loc.fault /\ ~loc.eof /\ ~AddEnteredInvalid)
        => (lastOut = "sale_added" /\ CreateCommitted)

\* C2: with book B1 (stock 10, price 100) and an existing member, create-sale
\* passes the book-existence check, and with quantity 3 and discount 50 it ends
\* with stock 7 and a new row whose total is 250.
C2_BookB1IsFound ==
    (/\ Returned("add_date") /\ ~loc.fault /\ ~loc.eof
     /\ loc.bid = B1 /\ pre.book[B1] = [bprice |-> 100, bstock |-> 10])
        => /\ "qty" \in loc.asked
           /\ (loc.qtyIn = <<"3">> /\ loc.discIn = <<"5", "0">>)
                 => /\ lastOut = "sale_added"
                    /\ db.book[B1].bstock = 7
                    /\ \E s \in DOMAIN db.sale :
                          s \notin DOMAIN pre.sale /\ db.sale[s].stotal = 250

\* C3: in every committed state every book's stock is >= 0.
C3_StockNeverNegative ==
    \A b \in DOMAIN db.book : db.book[b].bstock >= 0

\* a sale has taken the whole stock of a book, and a later quantity was refused
C3_Witness ==
    /\ Returned("add_date") /\ lastOut = "err_stock"
    /\ \E b \in DOMAIN db.book : db.book[b].bstock = 0
    /\ db.sale # <<>>

\* C4: a confirmed delete of the k-th listed sale, that sale existing, commits a
\* state with the referenced book's stock higher by exactly the sale's quantity,
\* the row gone from the table, the listing and the report, and every other row
\* and every other book's stock unchanged.
C4_DeletePostcondition ==
    (/\ Returned("del_list") /\ "confirm" \in loc.asked
     /\ loc.confirmIn \in {<<"y">>, <<"Y">>} /\ ~loc.fault)
        => LET k   == ParseInt(loc.choiceIn).val
               s   == SortAsc(DOMAIN pre.sale)[k]
               row == pre.sale[s]
           IN  /\ lastOut = "sale_deleted"
               /\ db.book[row.bid].bstock = pre.book[row.bid].bstock + row.sqty
               /\ \A b \in (DOMAIN pre.book) \ {row.bid} : db.book[b] = pre.book[b]
               /\ DOMAIN db.sale = (DOMAIN pre.sale) \ {s}
               /\ \A o \in DOMAIN db.sale : db.sale[o] = pre.sale[o]
               /\ \A i \in 1..Len(list_sales(db)) : list_sales(db)[i].sid # s
               /\ \A i \in 1..Len(SaleReportRows(db)) : SaleReportRows(db)[i] # s

\* the second of two listed sales has been deleted
C4_Witness ==
    /\ Returned("del_list") /\ lastOut = "sale_deleted"
    /\ loc.choiceIn = <<"2">>
    /\ Cardinality(DOMAIN pre.sale) = 2 /\ Cardinality(DOMAIN db.sale) = 1

\* C5: a successful update with new discount d >= 0 sets the selected sale's
\* discount to d and its total to price x stored quantity - d, and leaves its
\* quantity, date, member and book, every other row and every stock unchanged.
C5_UpdateFrame ==
    (/\ Returned("upd_list") /\ "discount" \in loc.asked
     /\ ParseInt(loc.discIn).ok /\ ParseInt(loc.discIn).val >= 0 /\ ~loc.fault)
        => LET d   == ParseInt(loc.discIn).val
               k   == ParseInt(loc.choiceIn).val
               s   == SortAsc(DOMAIN pre.sale)[k]
               old == pre.sale[s]
           IN  /\ lastOut = "sale_updated"
               /\ DOMAIN db.sale = DOMAIN pre.sale
               /\ db.sale[s] = [old EXCEPT !.sdiscount = d,
                                    !.stotal = pre.book[old.bid].bprice * old.sqty - d]
               /\ \A o \in (DOMAIN pre.sale) \ {s} : db.sale[o] = pre.sale[o]
               /\ db.book = pre.book

\* one of two sales has had its discount changed
C5_Witness ==
    /\ Returned("upd_list") /\ lastOut = "sale_updated"
    /\ Cardinality(DOMAIN db.sale) = 2
    /\ \E s \in DOMAIN db.sale : db.sale[s].sdiscount # pre.sale[s].sdiscount

\* C6: when an answer given to create-sale is invalid, the sale table and every
\* book's stock are what they were before the operation.
C6_InvalidCreateChangesNothing ==
    (loc.op = "add_date" /\ AddEnteredInvalid)
        => (db.sale = pre.sale /\ db.book = pre.book)

\* each kind of refusal has happened with sales already in the table
C6_Witness ==
    /\ Returned("add_date") /\ AddEnteredInvalid
    /\ lastOut = "err_stock" /\ loc.qtyIn = <<"1", "1">>
    /\ prev.out = "err_member"
    /\ db.sale # <<>>

\* C7: a storage error inside create, update or delete leaves the persisted
\* tables as they were before the operation, with no transaction open; and the
\* persisted state never has the sale-row change of a create or delete without
\* its stock change, or the stock change without the row change.
C7_NoPartialState ==
    /\ (loc.fault /\ loc.op \in {"add_date", "upd_list", "del_list"})
          => (db = pre /\ tx = NoTx)
    /\ loc.op \in {"add_date", "del_list"}
          => ((db.sale # pre.sale) <=> (db.book # pre.book))
    /\ loc.op = "upd_list" => db.book = pre.book

\* create failed at its commit, after the insert and the stock decrement
C7_Witness ==
    /\ Returned("add_date") /\ loc.fault /\ lastOut = "db_error"
    /\ loc.dbcalls = 6

\* C8: a successful create immediately followed by a confirmed delete of that
\* same sale leaves every book's stock and the sale rows as before the create.
C8_CreateDeleteRoundTrip ==
    (/\ Returned("del_list") /\ lastOut = "sale_deleted"
     /\ prev.out = "sale_added" /\ loc.sid = prev.sid)
        => (db.book = prev.pre.book /\ db.sale = prev.pre.sale)

\* the round trip has been made with another sale in the table
C8_Witness ==
    /\ Returned("del_list") /\ lastOut = "sale_deleted"
    /\ prev.out = "sale_added" /\ loc.sid = prev.sid
    /\ prev.pre.sale # <<>>
    /\ db.book # InitDb.book

\* the messages that report an error of an operation
ErrorOuts ==
    {"db_error", "error", "err_date", "err_member", "err_book", "err_qty_int",
     "err_qty_positive", "err_stock", "err_discount_int", "err_discount_negative",
     "err_number", "err_not_found", "err_option"}

\* after an error of an operation the shell is back at the menu
ErrorsReturnToMenu ==
    /\ loc.fault => (pc = "menu" \/ (pc = "done" /\ exitPath = "connect_error"))
    /\ lastOut \in ErrorOuts => pc = "menu"
    /\ exitPath = "connect_error" => (pc = "done" /\ loc.op = "none" /\ loc.fault)

\* C9 as stated: an error ends only the current operation, and the program ends
\* by an error only when the storage connection cannot be opened.
C9_OnlyConnectFailureEnds ==
    /\ ErrorsReturnToMenu
    /\ pc = "done" => exitPath \in {"quit", "empty", "connect_error"}

\* C9 as amended: a storage or validation error ends only the current operation;
\* the program ends by an error only when the connection cannot be opened or
\* when input() raises EOFError at the menu, update or delete prompts.
C9_ErrorsEndOperationOnly ==
    /\ ErrorsReturnToMenu
    /\ pc = "done" => exitPath \in {"quit", "empty", "connect_error", "exception"}
    /\ exitPath = "exception" => (pc = "done" /\ loc.eof /\ ~loc.fault)

\* update hit a storage error inside its transaction and the menu is shown again
C9_Witness ==
    /\ Returned("upd_list") /\ loc.fault /\ lastOut = "db_error"
    /\ loc.dbcalls >= 3

HandlerPcs(first) ==
    CASE first = "add_date" ->
            AddPcs \cup {"add_begin", "add_insert", "add_stock", "add_commit"}
      [] first = "report" -> {"report"}
      [] first = "upd_list" ->
            {"upd_list", "upd_choice", "upd_discount", "upd_begin", "upd_select",
             "upd_write", "upd_commit"}
      [] first = "del_list" ->
            {"del_list", "del_choice", "del_confirm", "del_begin", "del_select",
             "del_restore", "del_remove", "del_commit"}

\* what one reading of the menu choice does
MenuStep ==
    (pc = "menu" /\ ~loc'.eof) =>
        LET c == Strip(loc'.menuIn)
        IN  /\ (pc' = "done") <=> (c = <<>> \/ c = <<"5">>)
            /\ c = <<"1">> => pc' = "add_date"
            /\ c = <<"2">> => pc' = "report"
            /\ c = <<"3">> => pc' = "upd_list"
            /\ c = <<"4">> => pc' = "del_list"
            /\ c \notin {<<>>, <<"1">>, <<"2">>, <<"3">>, <<"4">>, <<"5">>}
                  => /\ pc' = "menu" /\ lastOut' = "err_option"
                     /\ db' = db /\ tx' = tx

\* a handler runs to its return, where the menu is shown again, unless an
\* exception leaves it
HandlerStep ==
    \A h \in {"add_date", "report", "upd_list", "del_list"} :
        pc \in HandlerPcs(h) =>
            \/ pc' \in HandlerPcs(h) \cup {"menu"}
            \/ pc' = "done" /\ exitPath' = "exception"

ClosingOnce ==
    /\ closing = IF pc = "done" THEN 1 ELSE 0
    /\ pc = "done" => lastOut = "closing"
    /\ (pc = "done" /\ exitPath \in {"quit", "empty"})
          => Strip(loc.menuIn) \in {<<>>, <<"5">>}

\* C10: the loop ends exactly when the stripped input is empty or 5; 1-4 go to
\* create, report, update, delete and then back to the menu; any other input
\* prints an error, runs no handler and shows the menu again; and on every way
\* out the closing message is printed exactly once, as the last output.
C10_ShellLoop == []ClosingOnce /\ [][MenuStep /\ HandlerStep]_vars

\* the program was left by " 5" after sales were made
C10_Witness ==
    /\ pc = "done" /\ exitPath = "quit" /\ loc.menuIn = <<" ", "5">>
    /\ closing = 1 /\ lastOut = "closing"
    /\ db.sale # <<>>

\* C11: the report leaves the sale, book and member tables unchanged, prints one
\* block per sale row in ascending sale-id order, and prints the no-records
\* message if and only if the sale table is empty.
C11_ReportReadOnlyComplete ==
    /\ loc.op = "report" => (db = pre /\ tx = NoTx)
    /\ (Returned("report") /\ ~loc.fault)
          => /\ (lastOut = "no_records") <=> (pre.sale = <<>>)
             /\ (lastOut = "report") <=> (pre.sale # <<>>)
             /\ lastOut = "report" => loc.report = SortAsc(DOMAIN pre.sale)
             /\ lastOut = "no_records" => loc.report = <<>>

\* a report of two sales has been printed
C11_Witness ==
    /\ Returned("report") /\ lastOut = "report"
    /\ Len(loc.report) = 2 /\ Cardinality(DOMAIN db.sale) = 2

\* the order of add_sale's checks, by the prompt each one follows
CheckOrder == <<"date", "member", "book", "qty", "discount">>

\* the answer given at the i-th prompt fails that prompt's check
CheckFails(i) ==
    /\ CheckOrder[i] \in loc.asked
    /\ CASE i = 1 -> ~validate_date(loc.sdate)
         [] i = 2 -> loc.mid \notin DOMAIN pre.member
         [] i = 3 -> loc.bid \notin DOMAIN pre.book
         [] i = 4 -> \/ ~ParseInt(loc.qtyIn).ok
                     \/ ParseInt(loc.qtyIn).val <= 0
                     \/ ParseInt(loc.qtyIn).val > pre.book[loc.bid].bstock
         [] i = 5 -> \/ ~ParseInt(loc.discIn).ok
                     \/ ParseInt(loc.discIn).val < 0

\* the database calls made by the time the i-th check has failed: none for the
\* date, the member lookup for the member, at most both lookups afterwards
LookupsUpTo(i) == IF i = 1 THEN {0} ELSE IF i = 2 THEN {1} ELSE IF i = 3 THEN {1, 2} ELSE {2}

RejectedDates ==
    { <<"2", "0", "2", "4", "-", "1", "3", "-", "0", "1">>,
      <<"2", "0", "2", "4", "/", "0", "1", "/", "0", "1">>,
      <<"a", "b", "c">> }

\* C12: create-sale checks date, member, book, quantity (positive integer, then
\* against the stock) and discount in that order and stops at the first check
\* that fails: an error is reported and no later prompt, lookup or write
\* happens; a date failing the format or range check is rejected before any
\* database access.
C12_ValidationOrder ==
    loc.op = "add_date" =>
        /\ \A i \in 1..5 : CheckOrder[i] \in loc.asked
              => \A j \in 1..(i - 1) : CheckOrder[j] \in loc.asked
        /\ \A i \in 1..5 : CheckFails(i)
              => /\ pc = "menu" /\ lastOut \in ErrorOuts
                 /\ \A j \in (i + 1)..5 : CheckOrder[j] \notin loc.asked
                 /\ loc.dbcalls \in LookupsUpTo(i)
                 /\ ~loc.began /\ tx = NoTx /\ db = pre
        /\ ("date" \in loc.asked /\ loc.sdate \in RejectedDates)
              => (pc = "menu" /\ lastOut = "err_date" /\ loc.dbcalls = 0)
        /\ (pc = "menu" /\ lastOut = "err_stock")
              => (ParseInt(loc.qtyIn).ok /\ ParseInt(loc.qtyIn).val > 0)

\* the date 2024-13-01 was refused, and before that a negative discount, the
\* last check, after all five prompts
C12_Witness ==
    /\ Returned("add_date") /\ lastOut = "err_date" /\ loc.dbcalls = 0
    /\ loc.sdate = <<"2", "0", "2", "4", "-", "1", "3", "-", "0", "1">>
    /\ loc.asked = {"date"}
    /\ prev.out = "err_discount_negative"

\* the selection typed in update or delete is empty, not a number or outside
\* 1..(number of listed sales)
SelectionInvalid ==
    /\ "choice" \in loc.asked
    /\ \/ loc.choiceIn = <<>>
       \/ ~ParseInt(loc.choiceIn).ok
       \/ ParseInt(loc.choiceIn).val < 1
       \/ ParseInt(loc.choiceIn).val > Cardinality(DOMAIN pre.sale)

\* C13: in update and delete, when the selection is empty, non-numeric or out of
\* range, or the new discount is not an integer or negative, or the
\* confirmation is anything but y or Y, no transaction is begun and the sale
\* and book tables are unchanged.
C13_MutateOnlyOnValidInput ==
    LET rejected ==
          \/ SelectionInvalid
          \/ /\ loc.op = "upd_list" /\ "discount" \in loc.asked
             /\ (~ParseInt(loc.discIn).ok \/ ParseInt(loc.discIn).val < 0)
          \/ /\ loc.op = "del_list" /\ "confirm" \in loc.asked
             /\ loc.confirmIn \notin {<<"y">>, <<"Y">>}
    IN  (loc.op \in {"upd_list", "del_list"} /\ rejected)
            => /\ ~loc.began /\ tx = NoTx
               /\ db.sale = pre.sale /\ db.book = pre.book
               /\ pc = "menu"

\* a delete was refused at its confirmation by the answer yes, after an update
\* was refused for a negative discount
C13_Witness ==
    /\ Returned("del_list") /\ loc.confirmIn = <<"y", "e", "s">>
    /\ lastOut = "delete_cancelled"
    /\ prev.out = "err_discount_negative"
    /\ Cardinality(DOMAIN db.sale) = 2

\* the step after delete's SELECT found no row goes straight to the commit
VanishedSkips ==
    (pc = "del_select" /\ pc' # "menu" /\ ~loc'.sale_info.found)
        => (pc' = "del_commit" /\ tx' = tx)

\* the commit of a delete whose row had vanished changes nothing and reports
\* the deletion as done
VanishedCommits ==
    (pc = "del_commit" /\ ~loc.sale_info.found /\ ~loc'.fault)
        => /\ pc' = "menu" /\ lastOut' = "sale_deleted" /\ tx' = NoTx
           /\ db'.book = db.book /\ db'.sale = db.sale

\* the restore and the delete run only for a row the SELECT found; when it
\* found none, no row has the selected id and the transaction has written
\* nothing
VanishedIsNotFound ==
    /\ pc \in {"del_restore", "del_remove"} => loc.sale_info.found
    /\ pc = "del_restore" => loc.sid \in DOMAIN tx.sale
    /\ (pc = "del_commit" /\ ~loc.sale_info.found)
          => (loc.sid \notin DOMAIN db.sale /\ tx = db)

\* C14: when, after confirmation, no sale row has the selected id, the stock
\* restore and the row delete are skipped, the transaction still commits, no
\* error is reported, and every book's stock and every sale row are unchanged.
C14_VanishedSaleNoOp ==
    []VanishedIsNotFound /\ [][VanishedSkips /\ VanishedCommits]_vars

\* a delete was confirmed for a sale the other process had removed meanwhile
C14_Witness ==
    /\ Returned("del_list") /\ "confirm" \in loc.asked
    /\ ~loc.sale_info.found /\ loc.dbcalls = 4 /\ ~loc.fault
    /\ lastOut = "sale_deleted"
    /\ loc.sid \in DOMAIN pre.sale

\* what a step changes in the committed store, as another connection sees it
SaleRowAppears(s) ==
    /\ DOMAIN db'.sale = DOMAIN db.sale \cup {s}
    /\ \A t \in DOMAIN db.sale : db'.sale[t] = db.sale[t]
    /\ DOMAIN db'.book = DOMAIN db.book
    /\ \A b \in DOMAIN db.book :
         /\ db'.book[b].bprice = db.book[b].bprice
         /\ db'.book[b].bstock =
               db.book[b].bstock - (IF b = db'.sale[s].bid THEN db'.sale[s].sqty ELSE 0)

SaleRowDisappears(s) ==
    /\ DOMAIN db'.sale = DOMAIN db.sale \ {s}
    /\ \A t \in DOMAIN db'.sale : db'.sale[t] = db.sale[t]
    /\ DOMAIN db'.book = DOMAIN db.book
    /\ \A b \in DOMAIN db.book :
         /\ db'.book[b].bprice = db.book[b].bprice
         /\ db'.book[b].bstock =
               db.book[b].bstock + (IF b = db.sale[s].bid THEN db.sale[s].sqty ELSE 0)

ReaderSeesWhole ==
    (db'.sale # db.sale \/ db'.book # db.book)
        => \/ \E s \in DOMAIN db'.sale \ DOMAIN db.sale : SaleRowAppears(s)
           \/ \E s \in DOMAIN db.sale \ DOMAIN db'.sale : SaleRowDisappears(s)
           \/ (DOMAIN db'.sale = DOMAIN db.sale /\ db'.book = db.book)

ReaderSeesOldUntilCommit == tx # NoTx => db = pre

\* C15: what another connection can read changes only in whole operations: a
\* step that changes the committed store adds one sale row together with the
\* matching stock decrement, or removes one together with the matching stock
\* restore (an update changes sale columns only); while a transaction is open
\* the committed store is the one the operation started from
C15_AtomicVisibility == []ReaderSeesOldUntilCommit /\ [][ReaderSeesWhole]_vars

\* create has inserted the sale row in its transaction and not yet decremented
\* the stock; the committed store has neither change
C15_Witness ==
    /\ pc = "add_stock" /\ tx # NoTx
    /\ loc.sid \in DOMAIN tx.sale /\ loc.sid \notin DOMAIN db.sale
    /\ tx.book = db.book

\* the copies of book b held by the sale rows in S
RECURSIVE SoldQty(_, _, _)
SoldQty(v, S, b) ==
    IF S = {} THEN 0
    ELSE LET s == Min(S)
         IN  (IF v.sale[s].bid = b THEN v.sale[s].sqty ELSE 0)
                 + SoldQty(v, S \ {s}, b)

Holdings(v, b) == v.book[b].bstock + SoldQty(v, DOMAIN v.sale, b)

\* C16: in every committed state, for every book, the stock plus the
\* quantities of the sale rows that reference the book is what it was at start
C16_StockConservation ==
    /\ DOMAIN db.book = DOMAIN InitDb.book
    /\ \A b \in DOMAIN db.book : Holdings(db, b) = Holdings(InitDb, b)

\* two committed sale rows reference the same book, at the menu
C16_Witness ==
    /\ pc = "menu"
    /\ \E s, t \in DOMAIN db.sale :
         /\ s # t /\ db.sale[s].bid = db.sale[t].bid
         /\ db.book[db.sale[s].bid].bstock
               = InitDb.book[db.sale[s].bid].bstock - db.sale[s].sqty - db.sale[t].sqty

\* the positions between BEGIN TRANSACTION and the end of conn.commit()
TxPcs ==
    {"add_insert", "add_stock", "add_commit", "upd_select", "upd_write",
     "upd_commit", "del_select", "del_restore", "del_remove", "del_commit"}

\* C17: a transaction is open only between a handler's BEGIN and its commit or
\* rollback: at the menu prompt, at every other prompt and at every BEGIN no
\* transaction is open, whether the handler committed, found no sale to
\* update, or hit a storage error
C17_NoOpenTransactionAtMenu ==
    /\ tx # NoTx => pc \in TxPcs
    /\ (pc = "menu" /\ loc.began) => (tx = NoTx /\ lastOut # "none")

\* update began its transaction, found no row for the selected sale (another
\* process removed it), rolled back and the menu is shown
C17_Witness ==
    /\ Returned("upd_list") /\ lastOut = "err_not_found"
    /\ loc.began /\ ~loc.fault /\ tx = NoTx
    /\ loc.sid \in DOMAIN pre.sale /\ loc.sid \notin DOMAIN db.sale

\* every sale row of image v references a member and a book of v
References(v) ==
    \A s \in DOMAIN v.sale :
        v.sale[s].mid \in DOMAIN v.member /\ v.sale[s].bid \in DOMAIN v.book

\* the ids listed by list_sales, in the order listed
ListedSids(sales) == [i \in 1..Len(sales) |-> sales[i].sid]

\* C18: every sale row, committed or written in the open transaction,
\* references an existing member and an existing book; list_sales therefore
\* lists every sale row, and at the selection prompt of update and delete every
\* sale row can be picked by a number of the list
C18_ReferentialIntegrity ==
    /\ References(db)
    /\ tx # NoTx => References(tx)
    /\ ListedSids(list_sales(db)) = SortAsc(DOMAIN db.sale)
    /\ pc \in {"upd_choice", "del_choice"}
          => \A s \in DOMAIN db.sale :
                \E c \in 1..Len(loc.sales) : PickSid(loc.sales, c) = s

\* update has listed two sales and waits for the selection
C18_Witness ==
    /\ pc = "upd_choice"
    /\ Cardinality(DOMAIN db.sale) = 2
    /\ ListedSids(loc.sales) = SortAsc(DOMAIN db.sale)

====
